---- MODULE Spec2Model ----
(***************************************************************************)
(* Todo + Calendar GUI (src/todo_calendar_gui.py).                         *)
(*                                                                         *)
(* The program is a pywebview application: a Python object, CalendarAPI,   *)
(* exposed to a JavaScript front end.  Every pywebview.api.X(...) call of  *)
(* the front end runs X on a Python thread and resolves a promise with its *)
(* return value, so a call is modelled in two steps: the Python method     *)
(* runs (Py* actions) and, later, the awaiting JavaScript function resumes *)
(* with the result (On* actions).                                          *)
(*                                                                         *)
(* Time is counted in seconds of local wall-clock time; instant 0 is a     *)
(* Monday at 00:00:00.                                                     *)
(***************************************************************************)
EXTENDS Integers, Sequences, FiniteSets, TLC

VARIABLES
    \* ---- Python side and the two external collaborators
    service,            \* CalendarAPI.service: "None" or "svc"
    calendar,           \* the remote calendar: a set of event records
    nextId,             \* the identifier the remote service assigns next
    things,             \* number of to-dos created in the task application
    nowIdx,             \* the wall clock: an index into NowSamples
    \* ---- JavaScript globals
    parsedTimeISO, currentWeekOffset, selectedEvent, draggedEvent, parseTimeout,
    dragging,           \* a drag gesture is in progress
    \* ---- the DOM
    status, taskName, taskTime, taskDuration, parsedTime, addBtn, toast,
    weekLabel, todayBtn, grid, contextMenu,
    \* ---- pywebview calls in flight, one record per slot
    calls,
    \* ---- history: next-steps minus previous-steps since the last reset
    netSteps

backendVars == <<service, calendar, nextId, things>>
draftVars   == <<taskName, taskTime, taskDuration, parsedTime, parsedTimeISO>>
displayVars == <<weekLabel, todayBtn, grid, status>>
navVars     == <<currentWeekOffset, netSteps>>
menuVars    == <<selectedEvent, contextMenu>>
dragVars    == <<draggedEvent, dragging>>
vars == <<service, calendar, nextId, things, nowIdx,
          parsedTimeISO, currentWeekOffset, selectedEvent, draggedEvent,
          parseTimeout, dragging, status, taskName, taskTime, taskDuration,
          parsedTime, addBtn, toast, weekLabel, todayBtn, grid, contextMenu,
          calls, netSteps>>

(***************************************************************************)
(* Bounds of the model.                                                    *)
(***************************************************************************)
MaxInFlight == 2        \* pywebview calls in flight at a time
MaxOffset   == 2        \* |currentWeekOffset| explored
MaxCreated  == 2        \* events / to-dos created by add_task
MaxEvents   == 2        \* events in an answer drawn for renderCalendar

(***************************************************************************)
(* Program constants.                                                      *)
(***************************************************************************)
START_HOUR  == 6
END_HOUR    == 22
HOUR_HEIGHT == 60
MIN_HEIGHT  == 20
DEFAULT_DURATION == 60
\* 'America/Los_Angeles' as a UTC offset in hours (standard time)
TZ_HOURS    == -8

MinuteSec == 60
HourSec   == 60 * 60
DaySec    == 24 * 60 * 60
WeekSec   == 7 * DaySec
TzOffset  == TZ_HOURS * HourSec

Max(a, b) == IF a >= b THEN a ELSE b
Min(a, b) == IF a <= b THEN a ELSE b

\* Math.floor(a / b) for b > 0 (TLA+'s \div rounds towards minus infinity)
FloorDiv(a, b) == a \div b
Mod(a, b) == a % b

DayOf(t)    == FloorDiv(t, DaySec)
SecOfDay(t) == Mod(t, DaySec)
HourOf(t)   == SecOfDay(t) \div HourSec
MinuteOf(t) == (SecOfDay(t) % HourSec) \div MinuteSec

\* datetime.weekday(): Monday is 0
Weekday(t) == Mod(DayOf(t), 7)

(***************************************************************************)
(* Strings that the code inspects are sequences of one-character strings.  *)
(***************************************************************************)
Digits == <<"0", "1", "2", "3", "4", "5", "6", "7", "8", "9">>
IsDigit(c) == \E i \in 1..10 : Digits[i] = c
DigitVal(c) == (CHOOSE i \in 1..10 : Digits[i] = c) - 1
IsSpace(c) == c = " "

RECURSIVE LStrip(_)
LStrip(s) == IF s # <<>> /\ IsSpace(Head(s)) THEN LStrip(Tail(s)) ELSE s

RECURSIVE RStrip(_)
RStrip(s) ==
    IF s # <<>> /\ IsSpace(s[Len(s)]) THEN RStrip(SubSeq(s, 1, Len(s) - 1)) ELSE s

\* String.prototype.trim / str.strip
Trim(s) == RStrip(LStrip(s))

RECURSIVE DigitsVal(_, _)
DigitsVal(s, acc) ==
    IF s = <<>> THEN acc ELSE DigitsVal(Tail(s), 10 * acc + DigitVal(Head(s)))

AllDigits(s) == s # <<>> /\ \A i \in 1..Len(s) : IsDigit(s[i])

\* Python int(str): optional blanks, optional sign, decimal digits;
\* anything else raises ValueError
PyIntBody(s) == IF s # <<>> /\ Head(s) \in {"-", "+"} THEN Tail(s) ELSE s
PyIntOk(s) == AllDigits(PyIntBody(Trim(s)))
PyInt(s) ==
    LET t == Trim(s)
    IN  IF Head(t) = "-" THEN 0 - DigitsVal(Tail(t), 0)
        ELSE DigitsVal(PyIntBody(t), 0)

\* String(n) in JavaScript for an integer n
RECURSIVE NatStr(_)
NatStr(n) == IF n < 10 THEN <<Digits[n + 1]>> ELSE NatStr(n \div 10) \o <<Digits[(n % 10) + 1]>>
NumStr(n) == IF n < 0 THEN <<"-">> \o NatStr(0 - n) ELSE NatStr(n)

(***************************************************************************)
(* ISO-8601 strings.  zone is "date" (a calendar date only), "naive" (date  *)
(* and time, no offset), "offset" (date and time with the calendar's UTC    *)
(* offset, as the remote service returns them) or "z" (date and time        *)
(* followed by 'Z').                                                        *)
(***************************************************************************)
Iso(d, hh, mm, ss, z) == [d |-> d, hh |-> hh, mm |-> mm, ss |-> ss, zone |-> z]
NoIso == Iso(0, 0, 0, 0, "null")
IsoClock(iso) == iso.hh * HourSec + iso.mm * MinuteSec + iso.ss
IsoValid(iso) ==
    /\ iso.zone # "null"
    /\ iso.hh \in 0..23 /\ iso.mm \in 0..59 /\ iso.ss \in 0..59

\* datetime.isoformat() of a naive local datetime
IsoFormat(t) == Iso(DayOf(t), HourOf(t), MinuteOf(t), SecOfDay(t) % MinuteSec, "naive")

\* the 'dateTime' (with the calendar's offset) and 'date' strings of the service
IsoDateTime(t) == Iso(DayOf(t), HourOf(t), MinuteOf(t), SecOfDay(t) % MinuteSec, "offset")
IsoDate(d) == Iso(d, 0, 0, 0, "date")

\* new Date(string), as a local wall-clock instant: a date-only string and a
\* 'Z' string are UTC, a string without offset is local time
NewDate(iso) ==
    CASE iso.zone = "date"   -> iso.d * DaySec + TzOffset
      [] iso.zone = "z"      -> iso.d * DaySec + IsoClock(iso) + TzOffset
      [] OTHER               -> iso.d * DaySec + IsoClock(iso)

\* Date.toISOString().split('T')[0]: the UTC calendar date of an instant
ToISODate(t) == DayOf(t - TzOffset)

\* datetime.fromisoformat(string) as a local wall-clock instant
FromIsoFormat(iso) == iso.d * DaySec + IsoClock(iso)

(***************************************************************************)
(* The wall clock.  datetime.now() and new Date() read the same clock.     *)
(* Day 7 is the Monday of the week the samples lie in.                     *)
(***************************************************************************)
At(day, hh, mm, ss) == day * DaySec + hh * HourSec + mm * MinuteSec + ss
NowSamples == << At(9, 10, 30, 0), At(13, 23, 59, 59), At(14, 0, 0, 0) >>
now == NowSamples[nowIdx]

(***************************************************************************)
(* The remote calendar service (googleapiclient), an external collaborator.*)
(* A timed event keeps its start and end as instants, an all-day event as  *)
(* day numbers.                                                            *)
(***************************************************************************)
Event(id, title, allDay, s, e) ==
    [id |-> id, title |-> title, allDay |-> allDay, s |-> s, e |-> e]
EventStart(ev) == IF ev.allDay THEN ev.s * DaySec ELSE ev.s
EventEnd(ev)   == IF ev.allDay THEN ev.e * DaySec ELSE ev.e

\* the 'items' entry of an event: start/end carry 'dateTime' or 'date'
Item(ev) ==
    [id |-> ev.id, summary |-> ev.title,
     start |-> IF ev.allDay THEN IsoDate(ev.s) ELSE IsoDateTime(ev.s),
     end   |-> IF ev.allDay THEN IsoDate(ev.e) ELSE IsoDateTime(ev.e)]

Before(a, b) ==
    \/ EventStart(a) < EventStart(b)
    \/ (EventStart(a) = EventStart(b) /\ a.id < b.id)

RECURSIVE SortByStart(_)
SortByStart(S) ==
    IF S = {} THEN <<>>
    ELSE LET first == CHOOSE a \in S : \A b \in S \ {a} : Before(a, b)
         IN  <<first>> \o SortByStart(S \ {first})

\* events().list(timeMin, timeMax, singleEvents=True, orderBy='startTime'):
\* the events that end after timeMin and start before timeMax, both given
\* as UTC instants; a local instant t is the UTC instant t - TzOffset
RECURSIVE Items(_)
Items(evs) == IF evs = <<>> THEN <<>> ELSE <<Item(Head(evs))>> \o Items(Tail(evs))

RemoteList(cal, timeMinUtc, timeMaxUtc) ==
    Items(SortByStart({ev \in cal : /\ EventEnd(ev) - TzOffset > timeMinUtc
                                    /\ EventStart(ev) - TzOffset < timeMaxUtc}))

(***************************************************************************)
(* CalendarAPI: the Python methods.  Each operator gives the method's      *)
(* return value and its effects for one outcome of the external calls it   *)
(* makes (ok: the remote request succeeds; otherwise it raises).           *)
(***************************************************************************)
NotConnected == "Not connected"

\* the week window counted from today instead of from this week's Monday
WeekMondayOfToday(t, week_offset) ==
    LET today == t - SecOfDay(t)
    IN  today + week_offset * WeekSec

\* get_events, lines 87-89: the week window of an offset
WeekMonday(t, week_offset) ==
    LET today == t - SecOfDay(t)
    IN  today - Weekday(today) * DaySec + week_offset * WeekSec
WeekSunday(monday) == monday + 6 * DaySec + 23 * HourSec + 59 * MinuteSec + 59

\* get_events, lines 100-110
EventDict(item) ==
    [id |-> item.id, title |-> item.summary, start |-> item.start,
     end |-> item.end, isAllDay |-> item.start.zone = "date"]

RECURSIVE MapEventDict(_)
MapEventDict(items) ==
    IF items = <<>> THEN <<>>
    ELSE <<EventDict(Head(items))>> \o MapEventDict(Tail(items))

GetEventsFail(msg) ==
    [success |-> FALSE, events |-> <<>>, message |-> msg,
     weekStart |-> NoIso, weekEnd |-> NoIso, weekOffset |-> 0, remote |-> {}]

get_events(week_offset, ok) ==
    IF service = "None" THEN GetEventsFail(NotConnected)
    ELSE LET monday == WeekMonday(now, week_offset)
             sunday == WeekSunday(monday)
         IN  IF ~ok THEN [GetEventsFail("error") EXCEPT !.remote = {"list"}]
             ELSE [success |-> TRUE,
                   events |-> MapEventDict(RemoteList(calendar, monday, sunday)),
                   message |-> "",
                   weekStart |-> IsoFormat(monday), weekEnd |-> IsoFormat(sunday),
                   weekOffset |-> week_offset, remote |-> {"list"}]

\* init_calendar: the result and the new value of self.service
init_calendar(ok) ==
    IF ok THEN [success |-> TRUE, message |-> "Connected to Google Calendar",
                service |-> "svc"]
    ELSE [success |-> FALSE, message |-> "error", service |-> service]

\* delete_event without its check of self.service
delete_event_unchecked(event_id, ok) ==
    IF ok /\ \E ev \in calendar : ev.id = event_id
    THEN [success |-> TRUE, message |-> "", remote |-> {"delete"},
          calendar |-> {ev \in calendar : ev.id # event_id}]
    ELSE [success |-> FALSE, message |-> "error", remote |-> {"delete"},
          calendar |-> calendar]

\* delete_event: the result, the remote requests made and the calendar after
delete_event(event_id, ok) ==
    IF service = "None"
    THEN [success |-> FALSE, message |-> NotConnected, remote |-> {},
          calendar |-> calendar]
    ELSE IF ok /\ \E ev \in calendar : ev.id = event_id
         THEN [success |-> TRUE, message |-> "", remote |-> {"delete"},
               calendar |-> {ev \in calendar : ev.id # event_id}]
         ELSE [success |-> FALSE, message |-> "error", remote |-> {"delete"},
               calendar |-> calendar]

\* move_event: duration_minutes is the number the front end passes
move_event(event_id, new_start_iso, duration_minutes, okGet, okUpdate) ==
    IF service = "None"
    THEN [success |-> FALSE, message |-> NotConnected, remote |-> {},
          calendar |-> calendar]
    ELSE IF ~(okGet /\ \E ev \in calendar : ev.id = event_id)
         THEN [success |-> FALSE, message |-> "error", remote |-> {"get"},
               calendar |-> calendar]
         ELSE IF ~IsoValid(new_start_iso)
              THEN [success |-> FALSE, message |-> "error", remote |-> {"get"},
                    calendar |-> calendar]
              ELSE LET new_start == FromIsoFormat(new_start_iso)
                       new_end == new_start + duration_minutes * MinuteSec
                       old == CHOOSE ev \in calendar : ev.id = event_id
                   IN  IF okUpdate
                       THEN [success |-> TRUE, message |-> "",
                             remote |-> {"get", "update"},
                             calendar |-> (calendar \ {old}) \cup
                                 {Event(old.id, old.title, FALSE, new_start, new_end)}]
                       ELSE [success |-> FALSE, message |-> "error",
                             remote |-> {"get", "update"}, calendar |-> calendar]

\* add_to_things: True unless osascript fails
add_to_things(task_name, scheduled_time, ok) == ok

\* add_to_calendar: the return value, the remote requests and the calendar
add_to_calendar(task_name, start_time, duration_minutes, ok) ==
    IF service = "None"
    THEN [ok |-> FALSE, remote |-> {}, calendar |-> calendar]
    ELSE LET end_time == start_time + duration_minutes * MinuteSec
         IN  IF ok
             THEN [ok |-> TRUE, remote |-> {"insert"},
                   calendar |-> calendar \cup
                       {Event(nextId, task_name, FALSE, start_time, end_time)}]
             ELSE [ok |-> FALSE, remote |-> {"insert"}, calendar |-> calendar]

\* a JavaScript view of a Python bool, or of a key the dict does not have
JsBool(b) == IF b THEN "true" ELSE "false"
Truthy(v) == v = "true"

\* add_task reporting success when either creation succeeded
add_task_either(task_name, time_iso, duration_minutes, okThings, okCalendar) ==
    IF ~IsoValid(time_iso) \/ (duration_minutes # <<>> /\ ~PyIntOk(duration_minutes))
    THEN [success |-> FALSE, things |-> "undefined", calendar |-> "undefined",
          message |-> "error", ran |-> {}, remote |-> {},
          newCalendar |-> calendar, newThings |-> things]
    ELSE LET start_time == FromIsoFormat(time_iso)
             duration == IF duration_minutes # <<>> THEN PyInt(duration_minutes)
                         ELSE DEFAULT_DURATION
             things_ok == add_to_things(task_name, start_time, okThings)
             cal == add_to_calendar(task_name, start_time, duration, okCalendar)
         IN  [success |-> things_ok \/ cal.ok,
              things |-> JsBool(things_ok), calendar |-> JsBool(cal.ok),
              message |-> "", ran |-> {"add_to_things", "add_to_calendar"},
              remote |-> cal.remote, newCalendar |-> cal.calendar,
              newThings |-> IF things_ok THEN things + 1 ELSE things]

\* add_task: ran lists the helper calls made before it returned
add_task(task_name, time_iso, duration_minutes, okThings, okCalendar) ==
    IF ~IsoValid(time_iso) \/ (duration_minutes # <<>> /\ ~PyIntOk(duration_minutes))
    THEN [success |-> FALSE, things |-> "undefined", calendar |-> "undefined",
          message |-> "error", ran |-> {}, remote |-> {},
          newCalendar |-> calendar, newThings |-> things]
    ELSE LET start_time == FromIsoFormat(time_iso)
             duration == IF duration_minutes # <<>> THEN PyInt(duration_minutes)
                         ELSE DEFAULT_DURATION
             things_ok == add_to_things(task_name, start_time, okThings)
             cal == add_to_calendar(task_name, start_time, duration, okCalendar)
         IN  [success |-> things_ok /\ cal.ok,
              things |-> JsBool(things_ok), calendar |-> JsBool(cal.ok),
              message |-> "", ran |-> {"add_to_things", "add_to_calendar"},
              remote |-> cal.remote, newCalendar |-> cal.calendar,
              newThings |-> IF things_ok THEN things + 1 ELSE things]

(***************************************************************************)
(* parse_time.  The text of the time field is kept in parsed form: a start *)
(* expression and, when the text ends in a separator and a clock, that end *)
(* clock (hour, minute, am/pm marker or "" when it has none).              *)
(*   expr.k = "junk"   text dateparser cannot read                         *)
(*            "clock"  a clock time h:m with marker p, day words shifting  *)
(*                     the date by `day` days ("tomorrow 9am": day = 1)     *)
(*            "in"     "in <minutes> minutes"                              *)
(*            "monday" "next monday" and a clock time                      *)
(***************************************************************************)
Expr(k, day, h, m, p) == [k |-> k, day |-> day, h |-> h, m |-> m, p |-> p]
TimeText(blank, expr, isRange, eh, em, ep) ==
    [blank |-> blank, expr |-> expr, range |-> isRange, eh |-> eh, em |-> em, ep |-> ep]
NoExpr == Expr("junk", 0, 0, 0, "")
EmptyText == TimeText(TRUE, NoExpr, FALSE, 0, 0, "")
Single(expr) == TimeText(FALSE, expr, FALSE, 0, 0, "")
Range(expr, eh, em, ep) == TimeText(FALSE, expr, TRUE, eh, em, ep)

None == [ok |-> FALSE, t |-> 0]
Some(t) == [ok |-> TRUE, t |-> t]

\* the 24-hour value of a clock hour with an am/pm marker
Hour24(h, p) ==
    CASE p = "am" -> h % 12
      [] p = "pm" -> (h % 12) + 12
      [] OTHER    -> h
ClockOk(h, m, p) ==
    /\ m \in 0..59
    /\ IF p = "" THEN h \in 0..23 ELSE h \in 1..12

\* dateparser.parse(text, settings={'PREFER_DATES_FROM': 'future'}) at
\* instant t: a time without a date that has passed today is taken tomorrow
DateParse(expr, t) ==
    LET today == t - SecOfDay(t)
        clock == Hour24(expr.h, expr.p) * HourSec + expr.m * MinuteSec
    IN  CASE expr.k = "clock" /\ ClockOk(expr.h, expr.m, expr.p) ->
                IF expr.day = 0 /\ today + clock < t
                THEN Some(today + DaySec + clock)
                ELSE Some(today + expr.day * DaySec + clock)
          [] expr.k = "in" -> Some(t + expr.m * MinuteSec)
          [] expr.k = "monday" /\ ClockOk(expr.h, expr.m, expr.p) ->
                Some(today + (7 - Weekday(today)) * DaySec + clock)
          [] OTHER -> None

\* dateparser.parse('<YYYY-MM-DD> <clock>'): the clock on that calendar date
DateParseOn(day, h, m, p) ==
    IF ClockOk(h, m, p) /\ p # ""
    THEN Some(day * DaySec + Hour24(h, p) * HourSec + m * MinuteSec)
    ELSE None

\* strftime('%A, %B %d at %I:%M %p')
Strftime(t) ==
    [wd |-> Weekday(t), d |-> DayOf(t),
     hh |-> ((HourOf(t) + 11) % 12) + 1, mm |-> MinuteOf(t),
     ap |-> IF HourOf(t) < 12 THEN "AM" ELSE "PM"]
NoParsed == [wd |-> 0, d |-> 0, hh |-> 0, mm |-> 0, ap |-> ""]

NoDuration == [some |-> FALSE, v |-> 0]
Duration(v) == [some |-> TRUE, v |-> v]

ParseOk(t, duration) ==
    [success |-> TRUE, raised |-> FALSE, parsed |-> Strftime(t),
     iso |-> IsoFormat(t), duration |-> duration, message |-> ""]
ParseFail ==
    [success |-> FALSE, raised |-> FALSE, parsed |-> NoParsed, iso |-> NoIso,
     duration |-> NoDuration, message |-> "Could not parse time"]
\* the method raised: pywebview rejects the promise
ParseRaised ==
    [success |-> FALSE, raised |-> TRUE, parsed |-> NoParsed, iso |-> NoIso,
     duration |-> NoDuration, message |-> ""]

\* lines 215-227: the whole input as one timestamp; a text with a separator
\* and an end clock is not one timestamp
StandardParse(time_input, t) ==
    LET parsed == IF time_input.range THEN None ELSE DateParse(time_input.expr, t)
    IN  IF parsed.ok THEN ParseOk(parsed.t, NoDuration) ELSE ParseFail

\* lines 200-213: end_parsed.replace(hour=end_parsed.hour + 12) raises
\* ValueError when the hour would pass 23
RangeResult(start_parsed, end_parsed) ==
    IF end_parsed <= start_parsed
    THEN IF HourOf(end_parsed) + 12 > 23 THEN ParseRaised
         ELSE ParseOk(start_parsed,
                      Duration((end_parsed + 12 * HourSec - start_parsed) \div MinuteSec))
    ELSE ParseOk(start_parsed, Duration((end_parsed - start_parsed) \div MinuteSec))

parse_time_pm(time_input, t) ==
    IF time_input.range
    THEN LET start_parsed == DateParse(time_input.expr, t)
         IN  IF start_parsed.ok
             THEN LET end_p == IF time_input.ep # "" THEN time_input.ep
                               ELSE "pm"
                      end_parsed == DateParseOn(DayOf(start_parsed.t), time_input.eh,
                                                time_input.em, end_p)
                  IN  IF end_parsed.ok THEN RangeResult(start_parsed.t, end_parsed.t)
                      ELSE StandardParse(time_input, t)
             ELSE StandardParse(time_input, t)
    ELSE StandardParse(time_input, t)

parse_time(time_input, t) ==
    IF time_input.range
    THEN LET start_parsed == DateParse(time_input.expr, t)
         IN  IF start_parsed.ok
             THEN LET end_p == IF time_input.ep # "" THEN time_input.ep
                               ELSE IF HourOf(start_parsed.t) < 12 THEN "am" ELSE "pm"
                      end_parsed == DateParseOn(DayOf(start_parsed.t), time_input.eh,
                                                time_input.em, end_p)
                  IN  IF end_parsed.ok THEN RangeResult(start_parsed.t, end_parsed.t)
                      ELSE StandardParse(time_input, t)
             ELSE StandardParse(time_input, t)
    ELSE StandardParse(time_input, t)

(***************************************************************************)
(* renderCalendar and updateTodaySchedule: the DOM they build from a       *)
(* get_events result.                                                      *)
(***************************************************************************)
\* Date.getDay(): Sunday is 0
GetDay(t) == (Weekday(t) + 1) % 7
\* line 1133
TodayIdx(t) == IF GetDay(t) = 0 THEN 6 ELSE GetDay(t) - 1

Days == 0..6
EmptyBuckets == [d \in Days |-> <<>>]

\* the day index rounded to the nearest day
DayIdxRounded(start, weekStart) == FloorDiv(2 * (start - weekStart) + DaySec, 2 * DaySec)

\* line 1164
DayIdx(start, weekStart) == FloorDiv(start - weekStart, DaySec)

\* line 1167
InWeek(dayIdx) == dayIdx >= 0 /\ dayIdx < 7

ColorClass(end, t) == IF end < t THEN "event-completed" ELSE "event-normal"

\* lines 1161-1182: events.forEach(...) filling eventsByDay and allDayByDay
RECURSIVE GroupEvents(_, _, _, _)
GroupEvents(events, weekStart, t, acc) ==
    IF events = <<>> THEN acc
    ELSE LET event == Head(events)
             start == NewDate(event.start)
             end == NewDate(event.end)
             dayIdx == DayIdx(start, weekStart)
             entry == [event |-> event, startDate |-> start, endDate |-> end,
                       colorClass |-> ColorClass(end, t)]
             next ==
                 IF InWeek(dayIdx)
                 THEN IF event.isAllDay
                      THEN [acc EXCEPT !.allDayByDay[dayIdx] = Append(@, entry)]
                      ELSE [acc EXCEPT !.eventsByDay[dayIdx] = Append(@, entry)]
                 ELSE acc
         IN  GroupEvents(Tail(events), weekStart, t, next)

\* lines 1249-1250, in pixels: ((hour - START_HOUR) + minute / 60) * HOUR_HEIGHT
OffsetPx(t) == (HourOf(t) - START_HOUR) * HOUR_HEIGHT + (MinuteOf(t) * HOUR_HEIGHT) \div 60

\* line 1254
Skipped(startPx, endPx) ==
    endPx < 0 \/ startPx > (END_HOUR - START_HOUR + 1) * HOUR_HEIGHT

\* toLocaleTimeString('en-US', {hour: 'numeric', minute: '2-digit'})
TimeString(t) ==
    [hh |-> ((HourOf(t) + 11) % 12) + 1, mm |-> MinuteOf(t),
     ap |-> IF HourOf(t) < 12 THEN "AM" ELSE "PM"]

EventElementUnclamped(entry) ==
    LET startPx == OffsetPx(entry.startDate)
        endPx == OffsetPx(entry.endDate)
    IN  [id |-> entry.event.id, colorClass |-> entry.colorClass,
         top |-> Max(0, startPx),
         height |-> (endPx - startPx) - 2,
         title |-> entry.event.title,
         start |-> TimeString(entry.startDate), end |-> TimeString(entry.endDate),
         duration |-> ((endPx - startPx) * 60) \div HOUR_HEIGHT,
         startIso |-> entry.event.start]

\* lines 1242-1291: the element of one timed event
EventElement(entry) ==
    LET startPx == OffsetPx(entry.startDate)
        endPx == OffsetPx(entry.endDate)
    IN  [id |-> entry.event.id, colorClass |-> entry.colorClass,
         top |-> Max(0, startPx),
         height |-> Max(MIN_HEIGHT, (endPx - startPx) - 2),
         title |-> entry.event.title,
         start |-> TimeString(entry.startDate), end |-> TimeString(entry.endDate),
         duration |-> ((endPx - startPx) * 60) \div HOUR_HEIGHT,
         startIso |-> entry.event.start]

RECURSIVE ColumnEvents(_)
ColumnEvents(entries) ==
    IF entries = <<>> THEN <<>>
    ELSE LET entry == Head(entries)
         IN  (IF Skipped(OffsetPx(entry.startDate), OffsetPx(entry.endDate))
              THEN <<>> ELSE <<EventElement(entry)>>)
             \o ColumnEvents(Tail(entries))

NoLine == 0 - 1
\* lines 1231-1239
TimeLine(day, isCurrentWeek, t) ==
    IF isCurrentWeek /\ day = TodayIdx(t)
       /\ HourOf(t) >= START_HOUR /\ HourOf(t) <= END_HOUR
    THEN (HourOf(t) - START_HOUR) * HOUR_HEIGHT + (MinuteOf(t) * HOUR_HEIGHT) \div 60
    ELSE NoLine

\* insertion of x into a list sorted by start, after its equals (a stable sort)
RECURSIVE InsertByStart(_, _)
InsertByStart(x, sorted) ==
    IF sorted = <<>> THEN <<x>>
    ELSE IF NewDate(x.start) < NewDate(Head(sorted).start)
         THEN <<x>> \o sorted
         ELSE <<Head(sorted)>> \o InsertByStart(x, Tail(sorted))

RECURSIVE SortEvents(_, _)
SortEvents(events, sorted) ==
    IF events = <<>> THEN sorted
    ELSE SortEvents(Tail(events), InsertByStart(Head(events), sorted))

\* lines 1319-1323
RECURSIVE FilterToday(_, _, _)
FilterToday(events, weekStart, todayIdx) ==
    IF events = <<>> THEN <<>>
    ELSE LET event == Head(events)
             keep == /\ ~event.isAllDay
                     /\ DayIdx(NewDate(event.start), weekStart) = todayIdx
         IN  (IF keep THEN <<event>> ELSE <<>>)
             \o FilterToday(Tail(events), weekStart, todayIdx)

ScheduleItemInclusive(event, t) ==
    LET start == NewDate(event.start)
        end == NewDate(event.end)
        isCompleted == end <= t
    IN  [id |-> event.id, title |-> event.title, time |-> TimeString(start),
         status |-> IF isCompleted THEN "completed"
                    ELSE IF start <= t /\ t <= end THEN "in-progress" ELSE "upcoming"]

\* lines 1331-1339
ScheduleItem(event, t) ==
    LET start == NewDate(event.start)
        end == NewDate(event.end)
        isCompleted == end < t
    IN  [id |-> event.id, title |-> event.title, time |-> TimeString(start),
         status |-> IF isCompleted THEN "completed"
                    ELSE IF start <= t /\ t <= end THEN "in-progress" ELSE "upcoming"]

RECURSIVE MapSchedule(_, _)
MapSchedule(events, t) ==
    IF events = <<>> THEN <<>>
    ELSE <<ScheduleItem(Head(events), t)>> \o MapSchedule(Tail(events), t)

updateTodaySchedule(events, weekStart, todayIdx, t) ==
    MapSchedule(SortEvents(FilterToday(events, weekStart, todayIdx), <<>>), t)

NoGrid ==
    [rendered |-> FALSE, header |-> <<>>, currentHour |-> NoLine,
     allDayByDay |-> EmptyBuckets, eventsByDay |-> EmptyBuckets,
     columns |-> <<>>, todaySchedule |-> <<>>]

\* renderCalendar(events, weekStart, weekOffset) at instant t
renderCalendar(events, weekStart, weekOffset, t) ==
    LET todayIdx == TodayIdx(t)
        isCurrentWeek == weekOffset = 0
        groups == GroupEvents(events, weekStart, t,
                      [eventsByDay |-> EmptyBuckets, allDayByDay |-> EmptyBuckets])
    IN  [rendered |-> TRUE,
         header |-> [i \in Days |->
                        [date |-> DayOf(weekStart + i * DaySec),
                         today |-> isCurrentWeek /\ i = todayIdx]],
         currentHour |-> IF isCurrentWeek /\ HourOf(t) \in START_HOUR..END_HOUR
                         THEN HourOf(t) ELSE NoLine,
         allDayByDay |-> groups.allDayByDay,
         eventsByDay |-> groups.eventsByDay,
         columns |-> [day \in Days |->
                        [date |-> ToISODate(weekStart + day * DaySec),
                         timeLine |-> TimeLine(day, isCurrentWeek, t),
                         events |-> ColumnEvents(groups.eventsByDay[day])]],
         todaySchedule |-> updateTodaySchedule(events, weekStart, todayIdx, t)]

(***************************************************************************)
(* The front end: values of the DOM and of the script's globals.           *)
(***************************************************************************)
Slots == 1..MaxInFlight

NoArgs == [none |-> TRUE]
NoRes  == [none |-> TRUE]
\* fn(args) was called from the handler k.  Two fields observe the call and
\* are read by no handler: ran, the helper methods the Python method called,
\* the remote requests it made and what it created ("to-do", "event") before
\* it returned, and draft, the task form as it was when addTask made the call
NoDraft == <<>>
NoCall ==
    [fn |-> "none", args |-> NoArgs, k |-> "none", phase |-> "free", res |-> NoRes,
     ran |-> {}, draft |-> NoDraft]
Call(fn, args, k) ==
    [fn |-> fn, args |-> args, k |-> k, phase |-> "req", res |-> NoRes, ran |-> {},
     draft |-> NoDraft]

Requested(i, fn) == calls[i].phase = "req" /\ calls[i].fn = fn
Resolved(i, k)   == calls[i].phase = "resp" /\ calls[i].k = k
\* the slot a new call takes: the lowest free one
Free(i) == calls[i].phase = "free" /\ \A j \in Slots : j < i => calls[j].phase # "free"
Return(i, res, ran) ==
    [calls EXCEPT ![i] = [@ EXCEPT !.phase = "resp", !.res = res, !.ran = ran]]
Issue(i, c)    == [calls EXCEPT ![i] = c]
Settle(i)      == [calls EXCEPT ![i] = NoCall]

NoToast == [msg |-> "", err |-> FALSE]
showToast(message, isError) == [msg |-> message, err |-> isError]

NoParsedTime == [k |-> "empty", parsed |-> NoParsed, start |-> NoParsed, end |-> NoParsed]
ArrowText(parsed) == [NoParsedTime EXCEPT !.k = "arrow", !.parsed = parsed]
ErrorText == [NoParsedTime EXCEPT !.k = "error"]
EditText(start, end) ==
    [k |-> "edit", parsed |-> NoParsed,
     start |-> [NoParsed EXCEPT !.hh = start.hh, !.mm = start.mm, !.ap = start.ap],
     end |-> [NoParsed EXCEPT !.hh = end.hh, !.mm = end.mm, !.ap = end.ap]]

AddLabel    == "ADD TASK"
AddingLabel == "Adding..."
NoSelection == [id |-> 0]
NoDrag      == [id |-> 0, duration |-> 0]

\* the event elements of the rendered grid
GridElements ==
    IF grid.rendered
    THEN UNION {{grid.columns[d].events[j] : j \in 1..Len(grid.columns[d].events)} : d \in Days}
    ELSE {}

(***************************************************************************)
(* Inputs of the model: what the user types and where the user drops.      *)
(***************************************************************************)
NameTexts == { <<>>, <<" ">>, <<"R">> }
DurationTexts == { <<>>, <<"a">>, <<"4", "5">> }
DurationPresets == {30, 60, 90, 120, 180}
NineAm == Expr("clock", 0, 9, 0, "am")
ThreePm == Expr("clock", 0, 3, 0, "pm")
TimeTexts ==
    { EmptyText, Single(NoExpr), Single(NineAm), Range(NineAm, 11, 0, ""),
      Range(ThreePm, 2, 0, "pm") }
QuickTimes ==
    { Single(Expr("in", 0, 0, 30, "")), Single(Expr("in", 0, 0, 60, "")),
      Single(Expr("clock", 1, 9, 0, "am")), Single(Expr("monday", 0, 9, 0, "am")) }
\* e.clientY - rect.top of a drop, in pixels
DropYs == {0, 130, 178}

SeedCalendar ==
    { Event(1, <<"A">>, FALSE, At(9, 9, 0, 0), At(9, 10, 0, 0)),
      Event(2, <<"B">>, FALSE, At(14, 0, 0, 0), At(14, 1, 0, 0)) }
SeedNextId == 1 + Cardinality(SeedCalendar)

(***************************************************************************)
(* The state when the window is ready: init() has called init_calendar.    *)
(***************************************************************************)
Init ==
    /\ service = "None"
    /\ calendar = SeedCalendar
    /\ nextId = SeedNextId
    /\ things = 0
    /\ nowIdx = 1
    /\ parsedTimeISO = NoIso
    /\ currentWeekOffset = 0
    /\ selectedEvent = NoSelection
    /\ draggedEvent = NoDrag
    /\ parseTimeout = FALSE
    /\ dragging = FALSE
    /\ status = "OFFLINE"
    /\ taskName = <<>>
    /\ taskTime = EmptyText
    /\ taskDuration = <<>>
    /\ parsedTime = NoParsedTime
    /\ addBtn = [disabled |-> FALSE, text |-> AddLabel]
    /\ toast = NoToast
    /\ weekLabel = <<>>
    /\ todayBtn = [hidden |-> FALSE]
    /\ grid = NoGrid
    /\ contextMenu = FALSE
    /\ calls = [i \in Slots |-> IF i = 1 THEN Call("init_calendar", NoArgs, "init") ELSE NoCall]
    /\ netSteps = 0

(***************************************************************************)
(* The Python methods run: a requested call becomes a resolved one.        *)
(***************************************************************************)
PyInitCalendar(i) ==
    /\ Requested(i, "init_calendar")
    /\ \E ok \in BOOLEAN :
         LET r == init_calendar(ok)
         IN  /\ service' = r.service
             /\ calls' = Return(i, [success |-> r.success, message |-> r.message], {})
    /\ UNCHANGED <<calendar, nextId, things, nowIdx, draftVars, displayVars,
                   navVars, menuVars, dragVars, parseTimeout, addBtn, toast>>

PyGetEvents(i) ==
    /\ Requested(i, "get_events")
    /\ \E ok \in BOOLEAN :
         LET r == get_events(calls[i].args.week_offset, ok)
         IN  calls' = Return(i, [r EXCEPT !.remote = {}], r.remote)
    /\ UNCHANGED <<service, calendar, nextId, things, nowIdx, draftVars, displayVars,
                   navVars, menuVars, dragVars, parseTimeout, addBtn, toast>>

PyDeleteEvent(i) ==
    /\ Requested(i, "delete_event")
    /\ \E ok \in BOOLEAN :
         LET r == delete_event(calls[i].args.event_id, ok)
         IN  /\ calendar' = r.calendar
             /\ calls' = Return(i, [success |-> r.success, message |-> r.message],
                                r.remote)
    /\ UNCHANGED <<service, nextId, things, nowIdx, draftVars, displayVars,
                   navVars, menuVars, dragVars, parseTimeout, addBtn, toast>>

PyMoveEvent(i) ==
    /\ Requested(i, "move_event")
    /\ \E okGet, okUpdate \in BOOLEAN :
         LET a == calls[i].args
             r == move_event(a.event_id, a.new_start_iso, a.duration_minutes,
                             okGet, okUpdate)
         IN  /\ calendar' = r.calendar
             /\ calls' = Return(i, [success |-> r.success, message |-> r.message],
                                r.remote)
    /\ UNCHANGED <<service, nextId, things, nowIdx, draftVars, displayVars,
                   navVars, menuVars, dragVars, parseTimeout, addBtn, toast>>

PyParseTime(i) ==
    /\ Requested(i, "parse_time")
    /\ calls' = Return(i, parse_time(calls[i].args.time_input, now), {})
    /\ UNCHANGED <<backendVars, nowIdx, draftVars, displayVars, navVars, menuVars,
                   dragVars, parseTimeout, addBtn, toast>>

PyAddTask(i) ==
    /\ Requested(i, "add_task")
    /\ \E okThings, okCalendar \in BOOLEAN :
         LET a == calls[i].args
             r == add_task(a.task_name, a.time_iso, a.duration_minutes,
                           okThings, okCalendar)
         IN  /\ calendar' = r.newCalendar
             /\ nextId' = IF r.newCalendar # calendar THEN nextId + 1 ELSE nextId
             /\ things' = r.newThings
             /\ calls' = Return(i, [success |-> r.success, things |-> r.things,
                                    calendar |-> r.calendar, message |-> r.message],
                                r.ran \cup r.remote
                                  \cup (IF things' > things THEN {"to-do"} ELSE {})
                                  \cup (IF calendar' # calendar THEN {"event"} ELSE {}))
    /\ UNCHANGED <<service, nowIdx, draftVars, displayVars, navVars, menuVars,
                   dragVars, parseTimeout, addBtn, toast>>

\* time passes
Tick ==
    /\ nowIdx < Len(NowSamples)
    /\ nowIdx' = nowIdx + 1
    /\ UNCHANGED <<backendVars, draftVars, displayVars, navVars, menuVars, dragVars,
                   parseTimeout, addBtn, toast, calls>>

(***************************************************************************)
(* The front end's handlers.  A handler that awaits a call is two actions: *)
(* the part up to the call, and On<Handler>, the part after the await.     *)
(***************************************************************************)
\* refreshCalendar up to its await, taking slot i
RefreshCall(offset) == Call("get_events", [week_offset |-> offset], "refresh")

\* lines 1070-1081, after the await
OnInit(i) ==
    /\ Resolved(i, "init")
    /\ IF calls[i].res.success
       THEN /\ status' = "ONLINE"
            /\ calls' = Issue(i, RefreshCall(currentWeekOffset))
       ELSE /\ status' = "OFFLINE"
            /\ calls' = Settle(i)
    /\ UNCHANGED <<backendVars, nowIdx, draftVars, weekLabel, todayBtn, grid, navVars,
                   menuVars, dragVars, parseTimeout, addBtn, toast>>

\* lines 1084-1087
NavigateWeek(direction) ==
    /\ currentWeekOffset + direction \in (0 - MaxOffset)..MaxOffset
    /\ currentWeekOffset' = currentWeekOffset + direction
    /\ netSteps' = netSteps + direction
    /\ \E i \in Slots : Free(i) /\ calls' = Issue(i, RefreshCall(currentWeekOffset'))
    /\ UNCHANGED <<backendVars, nowIdx, draftVars, displayVars, menuVars, dragVars,
                   parseTimeout, addBtn, toast>>

\* lines 1089-1092
GoToToday ==
    /\ currentWeekOffset' = 0
    /\ netSteps' = 0
    /\ \E i \in Slots : Free(i) /\ calls' = Issue(i, RefreshCall(currentWeekOffset'))
    /\ UNCHANGED <<backendVars, nowIdx, draftVars, displayVars, menuVars, dragVars,
                   parseTimeout, addBtn, toast>>

\* the REFRESH button
RefreshButton ==
    /\ \E i \in Slots : Free(i) /\ calls' = Issue(i, RefreshCall(currentWeekOffset))
    /\ UNCHANGED <<backendVars, nowIdx, draftVars, displayVars, navVars, menuVars,
                   dragVars, parseTimeout, addBtn, toast>>

\* lines 1117-1120: the label shows the dates of weekStart and weekEnd
WeekLabel(weekStart, weekEnd) == <<DayOf(weekStart), DayOf(weekEnd)>>

\* refreshCalendar emptying the grid when get_events fails
OnRefreshClearing(i) ==
    /\ Resolved(i, "refresh")
    /\ LET result == calls[i].res
       IN  IF result.success
           THEN LET weekStart == NewDate(result.weekStart)
                    weekEnd == NewDate(result.weekEnd)
                IN  /\ weekLabel' = WeekLabel(weekStart, weekEnd)
                    /\ todayBtn' = [hidden |-> currentWeekOffset = 0]
                    /\ grid' = renderCalendar(result.events, weekStart,
                                              currentWeekOffset, now)
           ELSE /\ grid' = NoGrid
                /\ UNCHANGED <<weekLabel, todayBtn>>
    /\ calls' = Settle(i)
    /\ UNCHANGED <<backendVars, nowIdx, draftVars, status, navVars, menuVars, dragVars,
                   parseTimeout, addBtn, toast>>

\* lines 1111-1128, after the await
OnRefresh(i) ==
    /\ Resolved(i, "refresh")
    /\ LET result == calls[i].res
       IN  IF result.success
           THEN LET weekStart == NewDate(result.weekStart)
                    weekEnd == NewDate(result.weekEnd)
                IN  /\ weekLabel' = WeekLabel(weekStart, weekEnd)
                    /\ todayBtn' = [hidden |-> currentWeekOffset = 0]
                    /\ grid' = renderCalendar(result.events, weekStart,
                                              currentWeekOffset, now)
           ELSE UNCHANGED <<weekLabel, todayBtn, grid>>
    /\ calls' = Settle(i)
    /\ UNCHANGED <<backendVars, nowIdx, draftVars, status, navVars, menuVars, dragVars,
                   parseTimeout, addBtn, toast>>

(***************************************************************************)
(* The task form.                                                          *)
(***************************************************************************)
TypeName(text) ==
    /\ text # taskName
    /\ taskName' = text
    /\ UNCHANGED <<backendVars, nowIdx, taskTime, taskDuration, parsedTime,
                   parsedTimeISO, displayVars, navVars, menuVars, dragVars,
                   parseTimeout, addBtn, toast, calls>>

TypeDuration(text) ==
    /\ text # taskDuration
    /\ taskDuration' = text
    /\ UNCHANGED <<backendVars, nowIdx, taskName, taskTime, parsedTime,
                   parsedTimeISO, displayVars, navVars, menuVars, dragVars,
                   parseTimeout, addBtn, toast, calls>>

\* lines 1528-1530
SetDuration(minutes) ==
    /\ taskDuration' = NumStr(minutes)
    /\ UNCHANGED <<backendVars, nowIdx, taskName, taskTime, parsedTime,
                   parsedTimeISO, displayVars, navVars, menuVars, dragVars,
                   parseTimeout, addBtn, toast, calls>>

\* lines 1360-1362: an input event restarts the 300 ms timer
TypeTime(text) ==
    /\ text # taskTime
    /\ taskTime' = text
    /\ parseTimeout' = TRUE
    /\ UNCHANGED <<backendVars, nowIdx, taskName, taskDuration, parsedTime,
                   parsedTimeISO, displayVars, navVars, menuVars, dragVars,
                   addBtn, toast, calls>>

\* lines 1362-1372: the timer fires
ParseTimer ==
    /\ parseTimeout
    /\ parseTimeout' = FALSE
    /\ IF taskTime.blank
       THEN /\ parsedTime' = NoParsedTime
            /\ parsedTimeISO' = NoIso
            /\ UNCHANGED calls
       ELSE /\ \E i \in Slots :
                 Free(i) /\ calls' = Issue(i, Call("parse_time",
                                                   [time_input |-> taskTime], "input"))
            /\ UNCHANGED <<parsedTime, parsedTimeISO>>
    /\ UNCHANGED <<backendVars, nowIdx, taskName, taskTime, taskDuration, displayVars,
                   navVars, menuVars, dragVars, addBtn, toast>>

\* lines 1373-1386, after the await; a rejected promise ends the callback
OnParse(i) ==
    /\ Resolved(i, "input")
    /\ LET result == calls[i].res
       IN  IF result.raised THEN UNCHANGED <<parsedTime, parsedTimeISO, taskDuration>>
           ELSE IF result.success
           THEN /\ parsedTime' = ArrowText(result.parsed)
                /\ parsedTimeISO' = result.iso
                /\ taskDuration' =
                     IF result.duration.some /\ result.duration.v # 0
                     THEN NumStr(result.duration.v) ELSE taskDuration
           ELSE /\ parsedTime' = ErrorText
                /\ parsedTimeISO' = NoIso
                /\ UNCHANGED taskDuration
    /\ calls' = Settle(i)
    /\ UNCHANGED <<backendVars, nowIdx, taskName, taskTime, displayVars, navVars,
                   menuVars, dragVars, parseTimeout, addBtn, toast>>

\* lines 1095-1098
SetQuickTime(timeStr) ==
    /\ taskTime' = timeStr
    /\ \E i \in Slots :
         Free(i) /\ calls' = Issue(i, Call("parse_time", [time_input |-> timeStr], "quick"))
    /\ UNCHANGED <<backendVars, nowIdx, taskName, taskDuration, parsedTime,
                   parsedTimeISO, displayVars, navVars, menuVars, dragVars,
                   parseTimeout, addBtn, toast>>

\* lines 1099-1107, after the await
OnQuickTime(i) ==
    /\ Resolved(i, "quick")
    /\ LET result == calls[i].res
       IN  IF ~result.raised /\ result.success
           THEN /\ parsedTime' = ArrowText(result.parsed)
                /\ parsedTimeISO' = result.iso
                /\ taskDuration' =
                     IF result.duration.some /\ result.duration.v # 0
                     THEN NumStr(result.duration.v) ELSE taskDuration
           ELSE UNCHANGED <<parsedTime, parsedTimeISO, taskDuration>>
    /\ calls' = Settle(i)
    /\ UNCHANGED <<backendVars, nowIdx, taskName, taskTime, displayVars, navVars,
                   menuVars, dragVars, parseTimeout, addBtn, toast>>

\* line 1393: the duration addTask sends
DurationArg == IF Trim(taskDuration) # <<>> THEN Trim(taskDuration) ELSE <<"6", "0">>

\* the validation without its check of the stored time
ValidationOfNameOnly ==
    IF Trim(taskName) = <<>> THEN "Please enter a task name" ELSE ""

\* lines 1395-1403: the message of the validation that fails, "" when none does
Validation ==
    IF Trim(taskName) = <<>> THEN "Please enter a task name"
    ELSE IF parsedTimeISO.zone = "null" THEN "Please enter a valid time"
    ELSE ""

\* lines 1391-1409: addTask up to its await, from the button (which must be
\* enabled) or from Cmd/Ctrl+Enter
AddTask(byKey) ==
    /\ byKey \/ ~addBtn.disabled
    /\ IF Validation # ""
       THEN /\ toast' = showToast(Validation, TRUE)
            /\ UNCHANGED <<addBtn, calls>>
       ELSE /\ things < MaxCreated /\ nextId - SeedNextId < MaxCreated
            /\ addBtn' = [disabled |-> TRUE, text |-> AddingLabel]
            /\ \E i \in Slots :
                 Free(i) /\ calls' = Issue(i, [Call("add_task",
                                [task_name |-> Trim(taskName), time_iso |-> parsedTimeISO,
                                 duration_minutes |-> DurationArg], "add")
                                EXCEPT !.draft = draftVars])
            /\ UNCHANGED toast
    /\ UNCHANGED <<backendVars, nowIdx, draftVars, displayVars, navVars, menuVars,
                   dragVars, parseTimeout>>

\* the failure message naming a side only when its flag is the value false
FailureMessageOfFalse(result) ==
    "Failed to add task"
        \o (IF result.things = "false" THEN " (Things)" ELSE "")
        \o (IF result.calendar = "false" THEN " (Calendar)" ELSE "")

\* lines 1423-1426
FailureMessage(result) ==
    "Failed to add task"
        \o (IF ~Truthy(result.things) THEN " (Things)" ELSE "")
        \o (IF ~Truthy(result.calendar) THEN " (Calendar)" ELSE "")

\* lines 1411-1427, after the await
OnAddTask(i) ==
    /\ Resolved(i, "add")
    /\ addBtn' = [disabled |-> FALSE, text |-> AddLabel]
    /\ IF calls[i].res.success
       THEN /\ toast' = showToast("Task added successfully", FALSE)
            /\ taskName' = <<>>
            /\ taskTime' = EmptyText
            /\ taskDuration' = <<>>
            /\ parsedTime' = NoParsedTime
            /\ parsedTimeISO' = NoIso
            /\ calls' = Issue(i, RefreshCall(currentWeekOffset))
       ELSE /\ toast' = showToast(FailureMessage(calls[i].res), TRUE)
            /\ UNCHANGED draftVars
            /\ calls' = Settle(i)
    /\ UNCHANGED <<backendVars, nowIdx, displayVars, navVars, menuVars, dragVars,
                   parseTimeout>>

(***************************************************************************)
(* The context menu of an event: Edit and Delete.                          *)
(***************************************************************************)
\* lines 1465-1484
ShowContextMenu(element) ==
    /\ element \in GridElements
    /\ selectedEvent' = [id |-> element.id, title |-> element.title,
                         start |-> element.start, end |-> element.end,
                         duration |-> NumStr(element.duration),
                         startIso |-> element.startIso]
    /\ contextMenu' = TRUE
    /\ UNCHANGED <<backendVars, nowIdx, draftVars, displayVars, navVars, dragVars,
                   parseTimeout, addBtn, toast, calls>>

\* lines 1486-1491: a click anywhere hides the menu
HideContextMenu ==
    /\ contextMenu
    /\ contextMenu' = FALSE
    /\ UNCHANGED <<backendVars, nowIdx, draftVars, displayVars, navVars, selectedEvent,
                   dragVars, parseTimeout, addBtn, toast, calls>>

\* lines 1494-1509: the result of delete_event is not awaited
EditEvent ==
    /\ contextMenu
    /\ contextMenu' = FALSE
    /\ selectedEvent.id # 0
    /\ taskName' = selectedEvent.title
    /\ taskDuration' = selectedEvent.duration
    /\ parsedTime' = EditText(selectedEvent.start, selectedEvent.end)
    /\ parsedTimeISO' = selectedEvent.startIso
    /\ \E i \in Slots :
         Free(i) /\ calls' = Issue(i, Call("delete_event",
                                           [event_id |-> selectedEvent.id], "edit"))
    /\ toast' = showToast("Edit event and save", FALSE)
    /\ UNCHANGED <<backendVars, nowIdx, taskTime, displayVars, navVars, selectedEvent,
                   dragVars, parseTimeout, addBtn>>

\* the promise editEvent dropped resolves: nothing reads it
OnEditDelete(i) ==
    /\ Resolved(i, "edit")
    /\ calls' = Settle(i)
    /\ UNCHANGED <<backendVars, nowIdx, draftVars, displayVars, navVars, menuVars,
                   dragVars, parseTimeout, addBtn, toast>>

\* lines 1512-1518: confirmed is the answer to confirm()
DeleteEvent(confirmed) ==
    /\ contextMenu
    /\ contextMenu' = FALSE
    /\ selectedEvent.id # 0
    /\ IF confirmed
       THEN \E i \in Slots :
              Free(i) /\ calls' = Issue(i, Call("delete_event",
                                                [event_id |-> selectedEvent.id], "delete"))
       ELSE UNCHANGED calls
    /\ UNCHANGED <<backendVars, nowIdx, draftVars, displayVars, navVars, selectedEvent,
                   dragVars, parseTimeout, addBtn, toast>>

\* lines 1519-1524, after the await
OnDeleteEvent(i) ==
    /\ Resolved(i, "delete")
    /\ IF calls[i].res.success
       THEN /\ toast' = showToast("Event deleted", FALSE)
            /\ calls' = Issue(i, RefreshCall(currentWeekOffset))
       ELSE /\ toast' = showToast("Failed to delete event", TRUE)
            /\ calls' = Settle(i)
    /\ UNCHANGED <<backendVars, nowIdx, draftVars, displayVars, navVars, menuVars,
                   dragVars, parseTimeout, addBtn>>

(***************************************************************************)
(* Drag and drop.                                                          *)
(***************************************************************************)
\* lines 1537-1547
HandleDragStart(element) ==
    /\ ~dragging
    /\ element \in GridElements
    /\ draggedEvent' = [id |-> element.id, duration |-> element.duration]
    /\ dragging' = TRUE
    /\ UNCHANGED <<backendVars, nowIdx, draftVars, displayVars, navVars, menuVars,
                   parseTimeout, addBtn, toast, calls>>

\* lines 1549-1554: the gesture ends, with or without a drop
HandleDragEnd ==
    /\ dragging
    /\ dragging' = FALSE
    /\ UNCHANGED <<backendVars, nowIdx, draftVars, displayVars, navVars, menuVars,
                   draggedEvent, parseTimeout, addBtn, toast, calls>>

\* Math.round(x / 15) for an integer x >= 0
RoundDiv15(x) == (2 * x + 15) \div 30

\* lines 1581-1591: the ISO string of a drop at y pixels in a column
DropDateTime(dateStr, y) ==
    LET newHour == START_HOUR + y \div HOUR_HEIGHT
        newMinutes == RoundDiv15(((y % HOUR_HEIGHT) * 60) \div HOUR_HEIGHT) * 15
    IN  Iso(dateStr, newHour, newMinutes, 0, "naive")

\* lines 1574-1594: handleDrop up to its await
HandleDrop(day, y) ==
    /\ dragging
    /\ grid.rendered
    /\ draggedEvent.id # 0
    /\ \E i \in Slots :
         Free(i) /\ calls' = Issue(i, Call("move_event",
                        [event_id |-> draggedEvent.id,
                         new_start_iso |-> DropDateTime(grid.columns[day].date, y),
                         duration_minutes |-> draggedEvent.duration], "drop"))
    /\ UNCHANGED <<backendVars, nowIdx, draftVars, displayVars, navVars, menuVars,
                   dragVars, parseTimeout, addBtn, toast>>

\* handleDrop refreshing whatever move_event returned
OnDropRefreshing(i) ==
    /\ Resolved(i, "drop")
    /\ toast' = IF calls[i].res.success THEN showToast("Event moved", FALSE)
                ELSE showToast("Failed to move event", TRUE)
    /\ calls' = Issue(i, RefreshCall(currentWeekOffset))
    /\ draggedEvent' = NoDrag
    /\ UNCHANGED <<backendVars, nowIdx, draftVars, displayVars, navVars, menuVars,
                   dragging, parseTimeout, addBtn>>

\* lines 1596-1603, after the await
OnDrop(i) ==
    /\ Resolved(i, "drop")
    /\ IF calls[i].res.success
       THEN /\ toast' = showToast("Event moved", FALSE)
            /\ calls' = Issue(i, RefreshCall(currentWeekOffset))
       ELSE /\ toast' = showToast("Failed to move event", TRUE)
            /\ calls' = Settle(i)
    /\ draggedEvent' = NoDrag
    /\ UNCHANGED <<backendVars, nowIdx, draftVars, displayVars, navVars, menuVars,
                   dragging, parseTimeout, addBtn>>

(***************************************************************************)
(* The whole program.                                                      *)
(***************************************************************************)
Backend ==
    \E i \in Slots :
        \/ PyInitCalendar(i)
        \/ PyGetEvents(i)
        \/ PyDeleteEvent(i)
        \/ PyMoveEvent(i)
        \/ PyParseTime(i)
        \/ PyAddTask(i)

Resume ==
    \E i \in Slots :
        \/ OnInit(i)
        \/ OnRefresh(i)
        \/ OnParse(i)
        \/ OnQuickTime(i)
        \/ OnAddTask(i)
        \/ OnEditDelete(i)
        \/ OnDeleteEvent(i)
        \/ OnDrop(i)

Navigation ==
    \/ \E direction \in {0 - 1, 1} : NavigateWeek(direction)
    \/ GoToToday
    \/ RefreshButton

Form ==
    \/ \E text \in NameTexts : TypeName(text)
    \/ \E text \in DurationTexts : TypeDuration(text)
    \/ \E minutes \in DurationPresets : SetDuration(minutes)
    \/ \E text \in TimeTexts : TypeTime(text)
    \/ ParseTimer
    \/ \E timeStr \in QuickTimes : SetQuickTime(timeStr)
    \/ \E byKey \in BOOLEAN : AddTask(byKey)

Menu ==
    \/ \E element \in GridElements : ShowContextMenu(element)
    \/ HideContextMenu
    \/ EditEvent
    \/ \E confirmed \in BOOLEAN : DeleteEvent(confirmed)

Drag ==
    \/ \E element \in GridElements : HandleDragStart(element)
    \/ HandleDragEnd
    \/ \E day \in Days, y \in DropYs : HandleDrop(day, y)

Next == Backend \/ Resume \/ Navigation \/ Form \/ Menu \/ Drag \/ Tick

Spec == Init /\ [][Next]_vars

(***************************************************************************)
(* The program with a user who only works on the task form, typing a name  *)
(* that is blank or not, a duration that is no number, and a time range.   *)
(***************************************************************************)
SubmitNames == { <<" ">>, <<"R">> }
SubmitDurations == { <<"a">> }
SubmitTimes == { Range(NineAm, 11, 0, "") }

NextSubmit ==
    \/ \E i \in Slots :
          \/ PyInitCalendar(i)
          \/ PyGetEvents(i)
          \/ PyParseTime(i)
          \/ PyAddTask(i)
          \/ OnInit(i)
          \/ OnRefresh(i)
          \/ OnParse(i)
          \/ OnAddTask(i)
    \/ \E text \in SubmitNames : TypeName(text)
    \/ \E text \in SubmitDurations : TypeDuration(text)
    \/ \E text \in SubmitTimes : TypeTime(text)
    \/ ParseTimer
    \/ \E byKey \in BOOLEAN : AddTask(byKey)

SpecSubmit == Init /\ [][NextSubmit]_vars

(***************************************************************************)
(* The program with a user who only navigates between weeks and refreshes, *)
(* while time passes.                                                      *)
(***************************************************************************)
NextNav ==
    \/ \E i \in Slots :
          \/ PyInitCalendar(i)
          \/ PyGetEvents(i)
          \/ OnInit(i)
          \/ OnRefresh(i)
    \/ Navigation
    \/ Tick

SpecNav == Init /\ [][NextNav]_vars

(***************************************************************************)
(* The program with a user who works on the displayed week: Today,        *)
(* REFRESH, the context menu's Edit and Delete, and drops on Wednesday's   *)
(* column at 06:00 and at a height whose minutes round up to 60.           *)
(***************************************************************************)
ViewDropDays == { 2 }
ViewDropYs == { 0, 178 }

NextView ==
    \/ \E i \in Slots :
          \/ PyInitCalendar(i)
          \/ PyGetEvents(i)
          \/ PyDeleteEvent(i)
          \/ PyMoveEvent(i)
          \/ OnInit(i)
          \/ OnRefresh(i)
          \/ OnEditDelete(i)
          \/ OnDeleteEvent(i)
          \/ OnDrop(i)
    \/ GoToToday
    \/ RefreshButton
    \/ \E element \in GridElements : ShowContextMenu(element)
    \/ EditEvent
    \/ \E confirmed \in BOOLEAN : DeleteEvent(confirmed)
    \/ \E element \in GridElements : HandleDragStart(element)
    \/ HandleDragEnd
    \/ \E day \in ViewDropDays, y \in ViewDropYs : HandleDrop(day, y)

SpecView == Init /\ [][NextView]_vars

(***************************************************************************)
(* The program with a script in the window that calls the methods of the   *)
(* js_api object directly: every public method of CalendarAPI is callable  *)
(* at any time, connected or not.                                          *)
(***************************************************************************)
ClientCalls ==
    { <<"init_calendar", NoArgs>>,
      <<"get_events", [week_offset |-> 0]>>,
      <<"delete_event", [event_id |-> 1]>>,
      <<"move_event", [event_id |-> 1, new_start_iso |-> Iso(9, 6, 0, 0, "naive"),
                       duration_minutes |-> 60]>>,
      <<"add_task", [task_name |-> <<"R">>, time_iso |-> Iso(9, 9, 0, 0, "naive"),
                     duration_minutes |-> <<"4", "5">>]>> }

\* pywebview.api[fn](args), the promise kept by the script
ClientCall(fn, args) ==
    /\ fn = "add_task" => things < MaxCreated /\ nextId - SeedNextId < MaxCreated
    /\ \E i \in Slots : Free(i) /\ calls' = Issue(i, Call(fn, args, "client"))
    /\ UNCHANGED <<backendVars, nowIdx, draftVars, displayVars, navVars, menuVars,
                   dragVars, parseTimeout, addBtn, toast>>

\* the script takes the result
ClientResult(i) ==
    /\ Resolved(i, "client")
    /\ calls' = Settle(i)
    /\ UNCHANGED <<backendVars, nowIdx, draftVars, displayVars, navVars, menuVars,
                   dragVars, parseTimeout, addBtn, toast>>

NextApi ==
    \/ \E i \in Slots :
          \/ PyInitCalendar(i)
          \/ PyGetEvents(i)
          \/ PyDeleteEvent(i)
          \/ PyMoveEvent(i)
          \/ PyAddTask(i)
          \/ OnInit(i)
          \/ OnRefresh(i)
          \/ ClientResult(i)
    \/ \E c \in ClientCalls : ClientCall(c[1], c[2])

SpecApi == Init /\ [][NextApi]_vars

(***************************************************************************)
(* renderCalendar on the answers get_events can pass on.  Which events the *)
(* service returns for a window is the service's business, so the answer   *)
(* for the current week or the next is drawn from lists of up to MaxEvents *)
(* events around the week's and the grid's edges, and every call in flight *)
(* holds that answer.                                                      *)
(***************************************************************************)
LayoutAnchor == At(7, 0, 0, 0)
LayoutTimed == { LayoutAnchor - 1, LayoutAnchor, LayoutAnchor + DaySec - 1,
                 At(9, 9, 0, 0), LayoutAnchor + WeekSec - 1, LayoutAnchor + WeekSec }
LayoutAllDay == { 7, 10, 14 }
\* timed events by start and end: one that starts before the first row, one
\* that ends where the first row starts, one that ends at the first clock
\* sample, one of no length at that sample, one that ends the next morning,
\* one that starts where the last row ends, and one that ends the next day
\* at an earlier time of day than it starts
LayoutSpans ==
    { <<At(9, 5, 0, 0), At(9, 7, 0, 0)>>, <<At(9, 5, 0, 0), At(9, 6, 0, 0)>>,
      <<At(9, 9, 30, 0), At(9, 10, 30, 0)>>, <<At(9, 10, 30, 0), At(9, 10, 30, 0)>>,
      <<At(9, 20, 0, 0), At(10, 5, 0, 0)>>, <<At(9, 23, 0, 0), At(9, 23, 30, 0)>>,
      <<At(9, 10, 0, 0), At(10, 9, 0, 0)>> }
LayoutEvents ==
    { EventDict(Item(Event(t, <<"T">>, FALSE, t, t + HourSec))) : t \in LayoutTimed }
      \cup { EventDict(Item(Event(d, <<"D">>, TRUE, d, d + 1))) : d \in LayoutAllDay }
      \cup { EventDict(Item(Event(p[1] + p[2], <<"S">>, FALSE, p[1], p[2]))) :
                p \in LayoutSpans }

\* the lists of at most n different events
RECURSIVE LayoutLists(_)
LayoutLists(n) ==
    IF n = 0 THEN { <<>> }
    ELSE LayoutLists(n - 1) \cup
         { Append(l, e) : l \in { m \in LayoutLists(n - 1) : Len(m) = n - 1 },
                          e \in LayoutEvents }

Answer(events) ==
    [Call("get_events", [week_offset |-> 0], "refresh") EXCEPT
        !.phase = "resp", !.ran = {"list"},
        !.res = [success |-> TRUE, events |-> events, message |-> "",
                 weekStart |-> IsoFormat(LayoutAnchor),
                 weekEnd |-> IsoFormat(WeekSunday(LayoutAnchor)),
                 weekOffset |-> 0, remote |-> {}]]

\* the same answer for the week `weeks` weeks later: what get_events returns
\* for that offset when the calendar holds these events in that week
LaterIso(iso, weeks) == [iso EXCEPT !.d = @ + 7 * weeks]
RECURSIVE LaterEvents(_, _)
LaterEvents(events, weeks) ==
    IF events = <<>> THEN <<>>
    ELSE <<[Head(events) EXCEPT !.start = LaterIso(@, weeks),
                                !.end = LaterIso(@, weeks)]>>
         \o LaterEvents(Tail(events), weeks)
AnswerLater(events, weeks) ==
    [Answer(events) EXCEPT
        !.args = [week_offset |-> weeks],
        !.res.events = LaterEvents(events, weeks),
        !.res.weekStart = LaterIso(@, weeks),
        !.res.weekEnd = LaterIso(@, weeks),
        !.res.weekOffset = weeks]
LayoutWeeks == { 0, 1 }

InitLayout ==
    /\ service = "svc"
    /\ calendar = SeedCalendar
    /\ nextId = SeedNextId
    /\ things = 0
    /\ nowIdx \in 1..2
    /\ parsedTimeISO = NoIso
    /\ currentWeekOffset \in LayoutWeeks
    /\ selectedEvent = NoSelection
    /\ draggedEvent = NoDrag
    /\ parseTimeout = FALSE
    /\ dragging = FALSE
    /\ status = "ONLINE"
    /\ taskName = <<>>
    /\ taskTime = EmptyText
    /\ taskDuration = <<>>
    /\ parsedTime = NoParsedTime
    /\ addBtn = [disabled |-> FALSE, text |-> AddLabel]
    /\ toast = NoToast
    /\ weekLabel = <<>>
    /\ todayBtn = [hidden |-> FALSE]
    /\ grid = NoGrid
    /\ contextMenu = FALSE
    /\ \E events \in LayoutLists(MaxEvents) :
         /\ \A j, k \in 1..Len(events) : j # k => events[j] # events[k]
         /\ calls = [i \in Slots |-> AnswerLater(events, currentWeekOffset)]
    /\ netSteps = currentWeekOffset

NextLayout == \E i \in Slots : OnRefresh(i)

SpecLayout == InitLayout /\ [][NextLayout]_vars

(***************************************************************************)
(* parse_time on its own: the window is ready, the user has typed a time   *)
(* text and the 300 ms timer has fired, so a parse_time call for that text *)
(* is in flight beside the init_calendar call.  The texts are ranges from  *)
(* every start hour to end clocks with and without a marker, and texts     *)
(* without an end clock.                                                   *)
(***************************************************************************)
ParseStarts ==
    { Expr("clock", 0, h, 0, "") : h \in 0..23 }
      \cup { NineAm, ThreePm, Expr("clock", 1, 9, 0, "am"), NoExpr }
ParseTexts ==
    { Single(e) : e \in ParseStarts }
      \cup { Range(e, eh, em, ep) :
               e \in ParseStarts, eh \in 1..13, em \in { 0, 30 },
               ep \in { "", "am", "pm" } }

InitParse ==
    /\ service = "None"
    /\ calendar = SeedCalendar
    /\ nextId = SeedNextId
    /\ things = 0
    /\ nowIdx \in 1..Len(NowSamples)
    /\ parsedTimeISO = NoIso
    /\ currentWeekOffset = 0
    /\ selectedEvent = NoSelection
    /\ draggedEvent = NoDrag
    /\ parseTimeout = FALSE
    /\ dragging = FALSE
    /\ status = "OFFLINE"
    /\ taskName = <<>>
    /\ taskTime \in ParseTexts
    /\ taskDuration = <<>>
    /\ parsedTime = NoParsedTime
    /\ addBtn = [disabled |-> FALSE, text |-> AddLabel]
    /\ toast = NoToast
    /\ weekLabel = <<>>
    /\ todayBtn = [hidden |-> FALSE]
    /\ grid = NoGrid
    /\ contextMenu = FALSE
    /\ calls = [i \in Slots |->
                  CASE i = 1 -> Call("init_calendar", NoArgs, "init")
                    [] i = 2 -> Call("parse_time", [time_input |-> taskTime], "input")
                    [] OTHER -> NoCall]
    /\ netSteps = 0

NextParse == \E i \in Slots : PyParseTime(i) \/ OnParse(i)

SpecParse == InitParse /\ [][NextParse]_vars

(***************************************************************************)
(* The program with a user who writes events: the calendar holds one event *)
(* from Wednesday 10:00 to Thursday 09:00; the user types a task, a range  *)
(* from 23:00 to 10am and a duration, adds the task, and drags events to   *)
(* Wednesday's column, one call at a time.                                 *)
(***************************************************************************)
WriteCalendar == { Event(1, <<"A">>, FALSE, At(9, 10, 0, 0), At(10, 9, 0, 0)) }
WriteNames == { <<"R">> }
WriteDurations == { <<"-", "5">> }
WriteTimes == { Range(Expr("clock", 0, 23, 0, ""), 10, 0, "am") }

InitWrite ==
    /\ service = "None"
    /\ calendar = WriteCalendar
    /\ nextId = SeedNextId
    /\ things = 0
    /\ nowIdx = 1
    /\ parsedTimeISO = NoIso
    /\ currentWeekOffset = 0
    /\ selectedEvent = NoSelection
    /\ draggedEvent = NoDrag
    /\ parseTimeout = FALSE
    /\ dragging = FALSE
    /\ status = "OFFLINE"
    /\ taskName = <<>>
    /\ taskTime = EmptyText
    /\ taskDuration = <<>>
    /\ parsedTime = NoParsedTime
    /\ addBtn = [disabled |-> FALSE, text |-> AddLabel]
    /\ toast = NoToast
    /\ weekLabel = <<>>
    /\ todayBtn = [hidden |-> FALSE]
    /\ grid = NoGrid
    /\ contextMenu = FALSE
    /\ calls = [i \in Slots |-> IF i = 1 THEN Call("init_calendar", NoArgs, "init") ELSE NoCall]
    /\ netSteps = 0

\* the user lets a call finish before starting what makes the next one
OneAtATime == Cardinality({ i \in Slots : calls[i] # NoCall }) <= 1

NextWrite ==
    \/ \E i \in Slots :
          \/ PyInitCalendar(i)
          \/ PyGetEvents(i)
          \/ PyParseTime(i)
          \/ PyAddTask(i)
          \/ PyMoveEvent(i)
          \/ OnInit(i)
          \/ OnRefresh(i)
          \/ OnParse(i)
          \/ OnAddTask(i)
          \/ OnDrop(i)
    \/ \E text \in WriteNames : TypeName(text)
    \/ \E text \in WriteDurations : TypeDuration(text)
    \/ \E text \in WriteTimes : TypeTime(text)
    \/ ParseTimer /\ OneAtATime'
    \/ \E byKey \in BOOLEAN : AddTask(byKey) /\ OneAtATime'
    \/ \E element \in GridElements : HandleDragStart(element)
    \/ HandleDragEnd
    \/ \E y \in ViewDropYs : HandleDrop(2, y) /\ OneAtATime'

SpecWrite == InitWrite /\ [][NextWrite]_vars

(***************************************************************************)
(* The program with a user who only works on the time field: typing "9am"  *)
(* or "3pm", clearing the field, and the Tomorrow 9am button.              *)
(***************************************************************************)
TypedTimes == { EmptyText, Single(NineAm), Single(ThreePm) }
TypedQuickTimes == { Single(Expr("clock", 1, 9, 0, "am")) }

NextTyped ==
    \/ \E i \in Slots :
          \/ PyInitCalendar(i)
          \/ PyGetEvents(i)
          \/ PyParseTime(i)
          \/ OnInit(i)
          \/ OnRefresh(i)
          \/ OnParse(i)
          \/ OnQuickTime(i)
    \/ \E text \in TypedTimes : TypeTime(text)
    \/ ParseTimer
    \/ \E timeStr \in TypedQuickTimes : SetQuickTime(timeStr)

SpecTyped == Init /\ [][NextTyped]_vars

(***************************************************************************)
(* Properties of a submission, under SpecSubmit.                           *)
(***************************************************************************)
\* the response of the add_task call in slot i is handled in this step
AddSettles(i) == Resolved(i, "add") /\ calls'[i] # calls[i]
Created(i, what) == what \in calls[i].ran
BothCreated(i) == Created(i, "to-do") /\ Created(i, "event")
DraftCleared ==
    /\ taskName = <<>>
    /\ taskTime = EmptyText
    /\ taskDuration = <<>>
    /\ parsedTime = NoParsedTime
    /\ parsedTimeISO = NoIso

\* C1: every add_task call that has returned attempted both creations,
\* add_to_things and add_to_calendar, before it returned.
C1_BothAttempted ==
    \A i \in Slots :
        calls[i].fn = "add_task" /\ calls[i].phase = "resp"
            => {"add_to_things", "add_to_calendar"} \subseteq calls[i].ran

\* C2 as stated: when a submission settles, the draft is cleared if both
\* creations succeeded, and otherwise every draft field holds the value it had
\* when the submission started.
C2_DraftAsSubmitted ==
    [][\A i \in Slots :
         AddSettles(i) =>
            IF BothCreated(i) THEN DraftCleared'
            ELSE draftVars' = calls[i].draft]_vars

\* C2: when a submission settles, the draft is cleared if both creations
\* succeeded, and otherwise the step that handles the response leaves every
\* draft field as it was just before it.
C2_DraftOnSettle ==
    [][\A i \in Slots :
         AddSettles(i) =>
            IF BothCreated(i) THEN DraftCleared'
            ELSE draftVars' = draftVars]_vars

\* a submission failed on the calendar side and its draft is still in the form
C2_Witness ==
    /\ toast.msg = "Failed to add task (Calendar)"
    /\ taskName = <<"R">>
    /\ parsedTimeISO # NoIso
    /\ \A i \in Slots : calls[i].fn # "add_task"

\* C3: addTask with a name that is empty once trimmed, or with no stored
\* parsed time, shows a validation message and changes nothing else: no call
\* is issued, the button stays as it is, and the draft is unchanged.
C3_Rejected ==
    [][\A byKey \in BOOLEAN :
         AddTask(byKey) /\ (Trim(taskName) = <<>> \/ parsedTimeISO = NoIso) =>
            /\ toast'.err
            /\ toast'.msg \in {"Please enter a task name", "Please enter a valid time"}
            /\ calls' = calls
            /\ addBtn' = addBtn
            /\ draftVars' = draftVars]_vars

\* a submission with a name and no stored time was rejected
C3_Witness ==
    /\ toast.msg = "Please enter a valid time"
    /\ Trim(taskName) # <<>>
    /\ parsedTimeISO = NoIso
    /\ addBtn.text = AddLabel

\* C4: add_task returns success exactly when both creations succeeded, and
\* the message shown for a failure names exactly the sides that were not
\* created: "(Things)" iff no to-do was created, "(Calendar)" iff no event.
C4_Reports ==
    [][\A i \in Slots :
         AddSettles(i) =>
            /\ calls[i].res.success <=> BothCreated(i)
            /\ IF BothCreated(i)
               THEN ~toast'.err
               ELSE /\ toast'.err
                    /\ toast'.msg =
                         "Failed to add task"
                           \o (IF Created(i, "to-do") THEN "" ELSE " (Things)")
                           \o (IF Created(i, "event") THEN "" ELSE " (Calendar)")]_vars

\* a submission whose to-do failed and whose event was created was reported
C4_Witness ==
    /\ toast.msg = "Failed to add task (Things)"
    /\ things = 0
    /\ Cardinality(calendar) > Cardinality(SeedCalendar)

(***************************************************************************)
(* Properties of the gateway methods, under SpecApi.                       *)
(***************************************************************************)
\* the Python method of the call in slot i runs in this step
Runs(i) == calls[i].phase = "req" /\ calls'[i].phase = "resp"
RemoteRequests == {"list", "get", "update", "delete", "insert"}

\* C5: a gateway method that runs while self.service is None makes no remote
\* request and leaves the calendar alone; get_events, delete_event and
\* move_event return success = false with the message 'Not connected',
\* add_to_calendar returns false, and init_calendar returns success = false
\* exactly when it leaves self.service None.
C5_ShortCircuit ==
    [][\A i \in Slots :
         service = "None" /\ Runs(i) =>
            LET c == calls'[i]
            IN  /\ c.ran \cap RemoteRequests = {}
                /\ calendar' = calendar
                /\ c.fn \in {"get_events", "delete_event", "move_event"} =>
                      ~c.res.success /\ c.res.message = "Not connected"
                /\ c.fn = "add_task" /\ "add_to_calendar" \in c.ran =>
                      c.res.calendar = "false" /\ ~c.res.success
                /\ c.fn = "init_calendar" =>
                      (c.res.success <=> service' # "None")]_vars

\* with no connection, a move, a deletion and a submission have all returned
C5_Witness ==
    /\ service = "None"
    /\ \E i, j \in Slots :
         /\ calls[i].fn = "move_event" /\ calls[i].phase = "resp"
         /\ calls[j].fn = "add_task" /\ calls[j].phase = "resp"
         /\ "add_to_calendar" \in calls[j].ran

(***************************************************************************)
(* Properties of failed gateway calls and of drops, under SpecView.        *)
(***************************************************************************)
GatewayCalls == {"get_events", "delete_event", "move_event"}
\* the front end takes the failed result of the gateway call in slot i
FailureReturns(i) ==
    /\ calls[i].phase = "resp"
    /\ calls[i].fn \in GatewayCalls
    /\ ~calls[i].res.success
    /\ calls'[i] # calls[i]

\* C6: the step that takes a failed get_events, delete_event or move_event
\* result leaves the week label, the Today button, the grid, the status and
\* the week offset as they were, and issues no call.
C6_FailureFrame ==
    [][\A i \in Slots :
         FailureReturns(i) =>
            /\ displayVars' = displayVars
            /\ currentWeekOffset' = currentWeekOffset
            /\ calls' = Settle(i)]_vars

\* a deletion failed and the week is displayed as before, nothing in flight
C6_Witness ==
    /\ toast.msg = "Failed to delete event"
    /\ grid.rendered
    /\ GridElements # {}
    /\ \A i \in Slots : calls[i] = NoCall

\* C7: the step that takes a failed get_events, delete_event or move_event
\* result, whichever handler made the call, shows an error message.
C7_FailureShown ==
    [][\A i \in Slots :
         FailureReturns(i) => toast'.err /\ toast'.msg # ""]_vars

\* C8: when the result of a drop's move_event is taken, a successful move
\* issues a get_events refresh of the current week, and a failed one shows
\* 'Failed to move event' and issues no call.
C8_RefreshIffMoved ==
    [][\A i \in Slots :
         Resolved(i, "drop") /\ calls'[i] # calls[i] =>
            IF calls[i].res.success
            THEN /\ "update" \in calls[i].ran
                 /\ calls' = Issue(i, Call("get_events",
                                           [week_offset |-> currentWeekOffset], "refresh"))
                 /\ ~toast'.err
            ELSE /\ toast' = [msg |-> "Failed to move event", err |-> TRUE]
                 /\ calls' = Settle(i)]_vars

\* a drop moved the event and its refresh has been requested
C8_Witness ==
    /\ toast.msg = "Event moved"
    /\ calendar # SeedCalendar
    /\ \E i \in Slots : Requested(i, "get_events")

(***************************************************************************)
(* Properties of week navigation, under SpecNav.                           *)
(***************************************************************************)
\* C9: the offset is the net number of next minus previous steps since the
\* last reset, a step changes it by exactly 1 or resets it to 0, and the
\* window get_events returns for an offset starts at 00:00 on the Monday
\* 7 * offset days from the Monday of the current week and ends at 23:59:59
\* on the Sunday six days later.
C9_WeekWindow ==
    /\ [](currentWeekOffset = netSteps)
    /\ [][/\ currentWeekOffset' # currentWeekOffset =>
               \/ currentWeekOffset' = 0
               \/ currentWeekOffset' - currentWeekOffset \in {0 - 1, 1}
          /\ \A i \in Slots :
               Runs(i) /\ calls[i].fn = "get_events" /\ calls'[i].res.success =>
                  LET offset == calls[i].args.week_offset
                      weekStart == calls'[i].res.weekStart
                      weekEnd == calls'[i].res.weekEnd
                      thisMonday == 7 * (now \div WeekSec)
                  IN  /\ calls'[i].res.weekOffset = offset
                      /\ weekStart = Iso(thisMonday + 7 * offset, 0, 0, 0, "naive")
                      /\ weekEnd = Iso(thisMonday + 7 * offset + 6, 23, 59, 59, "naive")]_vars

\* after the week turned, get_events has answered for the previous week
C9_Witness ==
    /\ now = At(14, 0, 0, 0)
    /\ currentWeekOffset = 0 - 1
    /\ \E i \in Slots :
         /\ Resolved(i, "refresh")
         /\ calls[i].res.success
         /\ calls[i].args.week_offset = 0 - 1
         /\ calls[i].res.weekStart.d = 7

(***************************************************************************)
(* Properties of renderCalendar, under SpecLayout.                         *)
(***************************************************************************)
Holds(list, event) == \E j \in 1..Len(list) : list[j].event = event
RECURSIVE Entries(_, _)
Entries(buckets, d) ==
    IF d < 0 THEN 0 ELSE Len(buckets[d]) + Entries(buckets, d - 1)

\* C10: when a fetched list is rendered, an event whose start lies d whole
\* days (0 <= d <= 6) after weekStart is in bucket d, in the all-day list if
\* isAllDay and in the timed list otherwise, in no other list, and only once;
\* an event that starts before weekStart or 7 days or more after it is in
\* no list.
C10_Bucketing ==
    [][\A i \in Slots :
         Resolved(i, "refresh") /\ calls[i].res.success /\ calls'[i] # calls[i] =>
            LET events == calls[i].res.events
                weekStart == NewDate(calls[i].res.weekStart)
                Since(k) == NewDate(events[k].start) - weekStart
            IN  /\ \A k \in 1..Len(events), d \in 0..6 :
                     LET here == d * DaySec <= Since(k) /\ Since(k) < (d + 1) * DaySec
                     IN  /\ Holds(grid'.allDayByDay[d], events[k])
                              <=> (here /\ events[k].isAllDay)
                         /\ Holds(grid'.eventsByDay[d], events[k])
                              <=> (here /\ ~events[k].isAllDay)
                /\ Entries(grid'.allDayByDay, 6) + Entries(grid'.eventsByDay, 6)
                     = Cardinality({k \in 1..Len(events) :
                                      0 <= Since(k) /\ Since(k) < 7 * DaySec})]_vars

\* an answer holding an event at the anchor and one 7 * 24 h later has been
\* rendered: the first is in bucket 0, the second in no bucket
C10_Witness ==
    /\ grid.rendered
    /\ \E i \in Slots :
         /\ Resolved(i, "refresh")
         /\ LET events == calls[i].res.events
            IN  /\ Len(events) = 2
                /\ NewDate(events[1].start) = LayoutAnchor + WeekSec
                /\ NewDate(events[2].start) = LayoutAnchor
                /\ Holds(grid.eventsByDay[0], events[2])
                /\ Entries(grid.allDayByDay, 6) + Entries(grid.eventsByDay, 6) = 1


\* the timed entries of column d paired with the boxes drawn for them
Boxes(d) ==
    { p \in (1..Len(grid.eventsByDay[d])) \X (1..Len(grid.columns[d].events)) :
        grid.eventsByDay[d][p[1]].event.id = grid.columns[d].events[p[2]].id }
EntryOf(d, p) == grid.eventsByDay[d][p[1]]
BoxOf(d, p) == grid.columns[d].events[p[2]]

\* C11: every box drawn for a timed event starts at the offset of the event's
\* start, (hour + minute / 60 - 6) * 60 px, or at the top of the grid when
\* the start is above it, and ends at the offset of the event's end (less
\* the 2 px gap), unless the span is shorter than the minimum height.
C11_BoxCoversSpan ==
    grid.rendered =>
        \A d \in Days : \A p \in Boxes(d) :
            LET startPx == OffsetPx(EntryOf(d, p).startDate)
                endPx == OffsetPx(EntryOf(d, p).endDate)
                box == BoxOf(d, p)
            IN  /\ box.top = Max(0, startPx)
                /\ \/ box.top + box.height \in { endPx - 2, endPx }
                   \/ box.height = MIN_HEIGHT /\ endPx - startPx - 2 <= MIN_HEIGHT

Drawn(d, k) == \E p \in Boxes(d) : p[1] = k

\* C12: a timed event of the displayed week has no box when its span lies
\* wholly before 06:00 or wholly after the last row of its day, and has a
\* box whenever its span overlaps the hours 6 to 22 of that day.
C12_OmittedIffOutside ==
    grid.rendered =>
        \A d \in Days : \A k \in 1..Len(grid.eventsByDay[d]) :
            LET start == grid.eventsByDay[d][k].startDate
                end == grid.eventsByDay[d][k].endDate
                first == DayOf(start) * DaySec + START_HOUR * HourSec
                last == DayOf(start) * DaySec + END_HOUR * HourSec
            IN  /\ end < first \/ start > last + HourSec => ~Drawn(d, k)
                /\ start < last /\ end > first => Drawn(d, k)

\* C13: every box drawn for a timed event is at least the minimum height
\* (20 px) high, whatever the event's start and end.
C13_MinHeight ==
    grid.rendered =>
        \A d \in Days : \A j \in 1..Len(grid.columns[d].events) :
            grid.columns[d].events[j].height >= MIN_HEIGHT

\* boxes are drawn for an event that ends when it starts and for one whose
\* end is at an earlier time of day than its start, both at the minimum
\* height
C13_Witness ==
    /\ grid.rendered
    /\ \E d \in Days : \E p, q \in Boxes(d) :
         /\ EntryOf(d, p).endDate = EntryOf(d, p).startDate
         /\ BoxOf(d, p).height = MIN_HEIGHT
         /\ SecOfDay(EntryOf(d, q).endDate) < SecOfDay(EntryOf(d, q).startDate)
         /\ BoxOf(d, q).height = MIN_HEIGHT

\* C14: when a fetched list is rendered, an event of the grid is marked
\* completed exactly when its end is strictly before now, and an event of
\* the today sidebar is completed exactly when end < now and in progress
\* exactly when start <= now <= end; an event that ends now is in progress.
C14_StatusFlags ==
    [][\A i \in Slots :
         Resolved(i, "refresh") /\ calls[i].res.success /\ calls'[i] # calls[i] =>
            LET events == calls[i].res.events
            IN  /\ \A d \in Days :
                     \A list \in { grid'.eventsByDay[d], grid'.allDayByDay[d] } :
                        \A k \in 1..Len(list) :
                           list[k].colorClass = "event-completed"
                             <=> NewDate(list[k].event.end) < now
                /\ \A j \in 1..Len(grid'.todaySchedule) :
                     \A k \in 1..Len(events) :
                        events[k].id = grid'.todaySchedule[j].id =>
                           LET start == NewDate(events[k].start)
                               end == NewDate(events[k].end)
                               flag == grid'.todaySchedule[j].status
                           IN  /\ flag = "completed" <=> end < now
                               /\ flag = "in-progress" <=> (start <= now /\ now <= end)]_vars

\* the sidebar lists as in progress an event that ends now and one that
\* starts now, and the grid does not mark the first as completed
C14_Witness ==
    /\ grid.rendered
    /\ \E d \in Days : \E p, q \in Boxes(d) :
         /\ EntryOf(d, p).endDate = now
         /\ EntryOf(d, p).startDate < now
         /\ EntryOf(d, p).colorClass = "event-normal"
         /\ EntryOf(d, q).startDate = now
         /\ \E j, k \in 1..Len(grid.todaySchedule) :
              /\ grid.todaySchedule[j].id = BoxOf(d, p).id
              /\ grid.todaySchedule[j].status = "in-progress"
              /\ grid.todaySchedule[k].id = BoxOf(d, q).id
              /\ grid.todaySchedule[k].status = "in-progress"

(***************************************************************************)
(* Properties of the rendering under navigation, under SpecNav.            *)
(***************************************************************************)
\* C15: whenever a refresh response that get_events computed for a week of
\* the present clock is rendered, the current-time line and the today
\* highlight are drawn only if the rendered week contains now, only in the
\* column of today's weekday, and the line only when the current hour is
\* in 6..22.
C15_MarkerOnlyNow ==
    [][\A i \in Slots :
         /\ Resolved(i, "refresh") /\ calls[i].res.success /\ calls'[i] # calls[i]
         /\ NewDate(calls[i].res.weekStart) = WeekMonday(now, calls[i].res.weekOffset)
         => LET weekStart == NewDate(calls[i].res.weekStart)
            IN  \A d \in Days :
                   grid'.columns[d].timeLine # NoLine \/ grid'.header[d].today =>
                      /\ weekStart <= now /\ now < weekStart + WeekSec
                      /\ d = Weekday(now)
                      /\ grid'.columns[d].timeLine # NoLine =>
                            HourOf(now) \in START_HOUR..END_HOUR]_vars

(***************************************************************************)
(* Properties of updateTodaySchedule, under SpecLayout.                    *)
(***************************************************************************)
\* C16: when a fetched list is rendered, every event the today sidebar lists
\* is a timed event of the list that starts on the present calendar day, the
\* sidebar is sorted ascending by start, and it is empty when the displayed
\* week is not the week that contains now.
C16_TodayOnly ==
    [][\A i \in Slots :
         Resolved(i, "refresh") /\ calls[i].res.success /\ calls'[i] # calls[i] =>
            LET events == calls[i].res.events
                listed == grid'.todaySchedule
                StartOf(j) ==
                    CHOOSE t \in { NewDate(events[k].start) : k \in 1..Len(events) } :
                        \E k \in 1..Len(events) :
                            /\ events[k].id = listed[j].id
                            /\ NewDate(events[k].start) = t
            IN  /\ \A j \in 1..Len(listed) :
                     \E k \in 1..Len(events) :
                        /\ events[k].id = listed[j].id
                        /\ ~events[k].isAllDay
                        /\ DayOf(NewDate(events[k].start)) = DayOf(now)
                /\ \A j \in 1..(Len(listed) - 1) : StartOf(j) <= StartOf(j + 1)
                /\ currentWeekOffset # 0 => listed = <<>>]_vars

(***************************************************************************)
(* Properties of parse_time, under SpecParse.                              *)
(***************************************************************************)
\* the am/pm marker of the end clock of a range once the start is resolved
EndMarker(text, start) ==
    IF text.ep # "" THEN text.ep ELSE IF HourOf(start) < 12 THEN "am" ELSE "pm"
\* the range steps of parse_time succeed for this text at this instant
RangeRead(text, t) ==
    /\ text.range
    /\ DateParse(text.expr, t).ok
    /\ ClockOk(text.eh, text.em, EndMarker(text, DateParse(text.expr, t).t))
\* the end clock on the calendar date of the start
EndOn(text, start) ==
    DayOf(start) * DaySec + Hour24(text.eh, EndMarker(text, start)) * HourSec
      + text.em * MinuteSec

\* C17: every parse_time call returns, with a success result or with the
\* failure "Could not parse time", and never raises; when the text is not
\* a range or a step of the range parsing fails the result has no duration
\* and is that of the text read as one timestamp; a failure carries no
\* parsed time, timestamp or duration.
C17_TotalWithFallback ==
    [][\A i \in Slots :
         Runs(i) /\ calls[i].fn = "parse_time" =>
            LET text == calls[i].args.time_input
                r == calls'[i].res
            IN  /\ ~r.raised
                /\ r.success \/ r.message = "Could not parse time"
                /\ ~RangeRead(text, now) => r.duration = NoDuration
                /\ ~text.range =>
                      IF DateParse(text.expr, now).ok
                      THEN r.success /\ r.iso = IsoFormat(DateParse(text.expr, now).t)
                      ELSE ~r.success
                /\ ~r.success =>
                      r.parsed = NoParsed /\ r.iso = NoIso /\ r.duration = NoDuration]_vars

\* C18: for every range whose end, resolved on the start's date, is not
\* strictly after the resolved start, parse_time succeeds with the start as
\* timestamp and with the duration from the start to the end advanced by
\* 12 hours, in minutes.
C18_TwelveHourWrap ==
    [][\A i \in Slots :
         Runs(i) /\ calls[i].fn = "parse_time" =>
            LET text == calls[i].args.time_input
                start == DateParse(text.expr, now).t
                r == calls'[i].res
            IN  RangeRead(text, now) /\ EndOn(text, start) <= start =>
                   /\ r.success
                   /\ r.iso = IsoFormat(start)
                   /\ r.duration =
                        Duration((EndOn(text, start) + 12 * HourSec - start) \div MinuteSec)]_vars

\* C19: for a range whose start and end clock can be read, an end clock
\* without a marker takes the period of the start (am when the start hour
\* is below 12, pm otherwise) and one with a marker keeps it, on the start's
\* calendar date; when that end is after the start the result is a success
\* with the start as timestamp and the minutes from start to end as
\* duration.
C19_PeriodInference ==
    [][\A i \in Slots :
         Runs(i) /\ calls[i].fn = "parse_time" =>
            LET text == calls[i].args.time_input
                start == DateParse(text.expr, now).t
                period == IF text.ep \in { "am", "pm" } THEN text.ep
                          ELSE IF HourOf(start) < 12 THEN "am" ELSE "pm"
                hour == IF period = "am" THEN text.eh % 12 ELSE (text.eh % 12) + 12
                end == (start - SecOfDay(start)) + hour * HourSec + text.em * MinuteSec
                r == calls'[i].res
            IN  /\ text.range /\ DateParse(text.expr, now).ok
                /\ text.eh \in 1..12 /\ text.em \in 0..59
                /\ end > start
                => /\ r.success
                   /\ r.iso = IsoFormat(start)
                   /\ r.duration = Duration((end - start) \div MinuteSec)]_vars

\* the start of "9am - 11" was resolved at 09:00 and the call has returned
\* 120 minutes: the end was read as 11 am on the start's date
C19_Witness ==
    \E i \in Slots :
       /\ Resolved(i, "input")
       /\ calls[i].args.time_input = Range(NineAm, 11, 0, "")
       /\ calls[i].res.success
       /\ HourOf(NewDate(calls[i].res.iso)) = 9
       /\ calls[i].res.duration = Duration(120)

(***************************************************************************)
(* Properties of the events written, under SpecWrite.                      *)
(***************************************************************************)
\* C20: every event that add_task or move_event writes to the calendar
\* ends at or after its start.
C20_EndNotBeforeStart ==
    [][\A ev \in calendar' \ calendar : EventEnd(ev) >= EventStart(ev)]_vars

(***************************************************************************)
(* Properties of the drag state, under SpecView.                           *)
(***************************************************************************)
\* C21: whenever no drag gesture is in progress and no move_event call is
\* awaiting its result, draggedEvent is null.
C21_DragStateLifetime ==
    ~dragging /\ (\A i \in Slots : calls[i].k # "drop") => draggedEvent = NoDrag

(***************************************************************************)
(* Properties of the displayed week, under SpecNav.                        *)
(***************************************************************************)
\* the Monday (as a day number) of the week at `offset` weeks from the week
\* of clock sample n
MondayAt(n, offset) == DayOf(WeekMonday(NowSamples[n], offset))

\* C22: whenever a week is shown and no get_events request is in flight,
\* the day columns and the label show the week that currentWeekOffset
\* selects (at some reading of the clock so far), and the TODAY button is
\* hidden only if that week can be the current one and shown only if it can
\* be another one.
C22_ShownWeekSelected ==
    grid.rendered /\ (\A i \in Slots : calls[i].fn # "get_events") =>
        LET clocks == 1..nowIdx
            shown == grid.header[0].date
        IN  /\ \E n \in clocks : shown = MondayAt(n, currentWeekOffset)
            /\ weekLabel = <<shown, shown + 6>>
            /\ todayBtn.hidden => \E n \in clocks : shown = MondayAt(n, 0)
            /\ ~todayBtn.hidden => \E n \in clocks : shown # MondayAt(n, 0)

(***************************************************************************)
(* Properties of submissions, under SpecSubmit.                            *)
(***************************************************************************)
\* C23: at most one add_task submission is in flight at a time.
C23_OneSubmission ==
    Cardinality({ i \in Slots : calls[i].fn = "add_task" }) <= 1

(***************************************************************************)
(* Properties of the stored time, under SpecTyped.                         *)
(***************************************************************************)
\* C24: whenever the debounce timer is not pending and no parse_time call
\* is in flight, parsedTimeISO is null if the time field is empty, and
\* otherwise is null or the timestamp parse_time gives for the text in the
\* field.
C24_StoredTimeOfShownText ==
    ~parseTimeout /\ (\A i \in Slots : calls[i].fn # "parse_time") =>
        /\ taskTime.blank => parsedTimeISO = NoIso
        /\ parsedTimeISO # NoIso =>
              \E n \in 1..nowIdx :
                 parsedTimeISO = parse_time(taskTime, NowSamples[n]).iso

(***************************************************************************)
(* Properties of Edit, under SpecView.                                     *)
(***************************************************************************)
\* C25: when the delete_event call that Edit made runs, every event of the
\* calendar is still there afterwards, unless an event created since (one
\* with a new id and the same title) replaces it.
C25_EditKeepsEvent ==
    [][\A i \in Slots :
         Runs(i) /\ calls[i].k = "edit" =>
            \A ev \in calendar :
               \/ ev \in calendar'
               \/ \E new \in calendar' :
                     new.id >= SeedNextId /\ new.title = ev.title]_vars

(***************************************************************************)
(* Properties of the parsed duration, under SpecParse.                     *)
(***************************************************************************)
\* C26: whenever parse_time returns a duration, it is strictly positive.
C26_PositiveDuration ==
    [][\A i \in Slots :
         Runs(i) /\ calls[i].fn = "parse_time" /\ calls'[i].res.duration.some =>
            calls'[i].res.duration.v > 0]_vars

(***************************************************************************)
(* Properties of the drop time, under SpecView.                            *)
(***************************************************************************)
\* C27: the start time of every move_event call made by a drop has its hour
\* in 6..22 and its minute in {0, 15, 30, 45}, and is an ISO string that
\* parses.
C27_DropTimeValid ==
    \A i \in Slots :
       calls[i].fn = "move_event" /\ calls[i].k = "drop" =>
          LET iso == calls[i].args.new_start_iso
          IN  /\ iso.hh \in START_HOUR..END_HOUR
              /\ iso.mm \in { 0, 15, 30, 45 }
              /\ IsoValid(iso)

(***************************************************************************)
(* Properties of a retried submission, under SpecSubmit.                   *)
(***************************************************************************)
\* the add_task call in slot i runs as a retry: it is the only submission
\* in flight, it was started after the last result was shown (the button
\* is disabled again), and that result was the failure `message`
RetryRuns(i, message) ==
    /\ Runs(i) /\ calls[i].fn = "add_task"
    /\ Cardinality({ j \in Slots : calls[j].fn = "add_task" }) = 1
    /\ addBtn.disabled
    /\ toast = showToast(message, TRUE)

\* C28: a submission retried after a partial failure adds nothing to the
\* side that had succeeded: no second to-do after "(Calendar)" failed, no
\* second event after "(Things)" failed.
C28_RetryNoDuplicate ==
    [][\A i \in Slots :
         /\ RetryRuns(i, "Failed to add task (Calendar)") => things' = things
         /\ RetryRuns(i, "Failed to add task (Things)") => calendar' = calendar]_vars

====
